---- MODULE Spec2Model ----
(***************************************************************************)
(* F1Tracker (src/app.py): the track-image derivation pipeline.            *)
(*                                                                         *)
(* Text is modelled as a sequence of one-character strings, so that        *)
(* str.replace, float(), int(), repr() and the f-string of the cache key   *)
(* are computed character by character.  An optional value (Python's None) *)
(* is the empty tuple and a present value x is the one-element tuple <<x>>.*)
(***************************************************************************)
EXTENDS Integers, Sequences, FiniteSets, TLC

\* ------------------------------------------------------------------ text

None == <<>>
Some(x) == <<x>>
IsNone(o) == o = <<>>
Val(o) == o[1]

Digits == <<"0", "1", "2", "3", "4", "5", "6", "7", "8", "9">>

IsDigit(c) == \E i \in 1..10 : Digits[i] = c

DigitVal(c) == (CHOOSE i \in 1..10 : Digits[i] = c) - 1

\* str(n) for a non-negative integer
RECURSIVE IntStr(_)
IntStr(n) == IF n < 10 THEN <<Digits[n + 1]>>
             ELSE IntStr(n \div 10) \o <<Digits[(n % 10) + 1]>>

\* the value of a non-empty all-digit text
RECURSIVE DigitsVal(_)
DigitsVal(s) == IF Len(s) = 0 THEN 0
                ELSE 10 * DigitsVal(SubSeq(s, 1, Len(s) - 1)) + DigitVal(s[Len(s)])

AllDigits(s) == \A i \in 1..Len(s) : IsDigit(s[i])

StartsWith(s, p) == Len(s) >= Len(p) /\ SubSeq(s, 1, Len(p)) = p

Drop(s, n) == SubSeq(s, n + 1, Len(s))

\* Python str.replace(old, new): every non-overlapping occurrence, left to right
RECURSIVE Replace(_, _, _)
Replace(s, old, new) ==
    IF Len(s) = 0 THEN <<>>
    ELSE IF StartsWith(s, old) THEN new \o Replace(Drop(s, Len(old)), old, new)
    ELSE <<s[1]>> \o Replace(Drop(s, 1), old, new)

NoneStr == <<"N", "o", "n", "e">>
TrueStr == <<"T", "r", "u", "e">>
FalseStr == <<"F", "a", "l", "s", "e">>
GrandPrix == <<" ", "G", "r", "a", "n", "d", " ", "P", "r", "i", "x">>

\* int(s): Some(n) for a decimal literal, None where Python raises ValueError
ParseInt(s) == IF Len(s) > 0 /\ AllDigits(s) THEN Some(DigitsVal(s)) ELSE None

RECURSIVE StripZeros(_)
StripZeros(s) == IF Len(s) > 0 /\ s[Len(s)] = "0"
                 THEN StripZeros(SubSeq(s, 1, Len(s) - 1)) ELSE s

DotAt(s) == IF \E i \in 1..Len(s) : s[i] = "."
            THEN CHOOSE i \in 1..Len(s) : s[i] = "." /\ \A j \in 1..(i - 1) : s[j] # "."
            ELSE 0

\* float(s): Some([ip, fp]) for a decimal literal "d+", "d+.", "d+.d+" or ".d+"
\* (integer part, fraction digits without trailing zeros), None where Python
\* raises ValueError
ParseFloat(s) ==
    LET d == DotAt(s)
        ipart == IF d = 0 THEN s ELSE SubSeq(s, 1, d - 1)
        fpart == IF d = 0 THEN <<>> ELSE Drop(s, d)
    IN IF AllDigits(ipart) /\ AllDigits(fpart) /\ Len(ipart) + Len(fpart) > 0
       THEN Some([ip |-> DigitsVal(ipart), fp |-> StripZeros(fpart)])
       ELSE None

\* repr(x) of a float
FloatRepr(x) == IntStr(x.ip) \o <<".">> \o (IF Len(x.fp) = 0 THEN <<"0">> ELSE x.fp)

\* str() of an optional text (the raw query parameter, or "None")
OptStr(o) == IF IsNone(o) THEN NoneStr ELSE Val(o)

BoolStr(b) == IF b THEN TrueStr ELSE FalseStr

\* str() of the figsize tuple (float, float), or "None"
FigsizeStr(o) ==
    IF IsNone(o) THEN NoneStr
    ELSE <<"(">> \o FloatRepr(Val(o)[1]) \o <<",", " ">> \o FloatRepr(Val(o)[2]) \o <<")">>

\* ------------------------------------------------------ draw_f1_circuit

\* Exception classes the callers tell apart
SessionNotAvailableError == "SessionNotAvailableError"
ValueError == "ValueError"
OtherException == "Exception"

\* What the session provider does for one (year, identifier) request
\* (get_session + load + laps + get_pos_data):
\*   loaded         non-empty laps and a non-empty positional trace
\*   not_available  fastf1 raises SessionNotAvailableError
\*   no_laps        session.laps is empty
\*   no_pos         the fastest lap's positional trace is empty
\*   value_error    fastf1 itself raises a ValueError
\*   fault          fastf1 raises any other exception
ProviderOutcomes == {"loaded", "not_available", "no_laps", "no_pos", "value_error", "fault"}

\* The exception class one iteration of the year loop sees, None when it breaks
IterationError(o) ==
    CASE o = "loaded" -> None
      [] o = "not_available" -> Some(SessionNotAvailableError)
      [] o \in {"no_laps", "no_pos", "value_error"} -> Some(ValueError)
      [] OTHER -> Some(OtherException)

\* A year loop that never falls back to the previous year
RetryNextYear_Never(y, current_year, max_years_back) == FALSE

\* A year loop whose handlers always continue
RetryNextYear_Always(y, current_year, max_years_back) == TRUE

\* A year loop that falls back from every year of the range
RetryNextYear_AnyYear(y, current_year, max_years_back) == max_years_back > 0

\* The handlers of SessionNotAvailableError and ValueError: continue or re-raise
RetryNextYear(y, current_year, max_years_back) ==
    y = current_year /\ max_years_back > 0

\* The for/else year loop from y down to current_year - max_years_back.
\* asked: the years requested from the provider so far, in request order.
RECURSIVE YearLoop(_, _, _, _, _)
YearLoop(y, current_year, max_years_back, prov, asked) ==
    IF y < current_year - max_years_back
    THEN [kind |-> "raise", exc |-> SessionNotAvailableError, exit |-> "exhausted",
          year |-> current_year, asked |-> asked]
    ELSE LET err == IterationError(prov[y])
             asked2 == Append(asked, y)
         IN IF IsNone(err)
            THEN [kind |-> "break", exc |-> "", exit |-> "break",
                  year |-> y, asked |-> asked2]
            ELSE IF Val(err) \in {SessionNotAvailableError, ValueError}
                    /\ RetryNextYear(y, current_year, max_years_back)
            THEN YearLoop(y - 1, current_year, max_years_back, prov, asked2)
            ELSE [kind |-> "raise", exc |-> Val(err), exit |-> "iteration",
                  year |-> current_year, asked |-> asked2]

\* np.deg2rad: an angle in radians is kept as the rational multiple of pi
Deg2Rad(deg) == [num |-> deg, den |-> 180]

\* Circuit metadata of the resolved session: get_circuit_info raises ("raises"),
\* returns None ("none"), or returns an object whose rotation attribute is
\* rotation (None when the attribute is missing)
CircRotation(circ) == IF circ.st = "info" THEN circ.rotation ELSE None

\* A rotation that prefers the circuit's own rotation to the caller's angle
RotationApplied_OfficialFirst(angle_rad, circ, require_official) ==
    IF ~IsNone(CircRotation(circ)) THEN Some(Deg2Rad(Val(CircRotation(circ))))
    ELSE IF ~IsNone(angle_rad) THEN angle_rad
    ELSE IF require_official THEN None
    ELSE Some([num |-> -1, den |-> 2])

\* The angle handed to rotate(), None when the centred trace is copied unrotated
RotationApplied(angle_rad, circ, require_official) ==
    LET rotation_deg == CircRotation(circ)
    IN IF ~IsNone(angle_rad) THEN angle_rad
       ELSE IF ~IsNone(rotation_deg) THEN Some(Deg2Rad(Val(rotation_deg)))
       ELSE IF require_official THEN None
       ELSE Some([num |-> -1, den |-> 2])

\* The rendered PNG: what the raster depends on besides the trace itself (the
\* line drawn and its corner markers, see CornerMarkers)
Png(gp_name, year, rot, show_axes, figsize) ==
    [gp |-> gp_name, year |-> year, rot |-> rot, axes |-> show_axes, size |-> figsize]

\* base64 text of the PNG (a non-empty text) and its inverse
B64Encode(png) == <<[b64 |-> png]>>
B64Decode(text) == text[1].b64

\* A stride of one eighth of the trace, rounded up
CornerStride_Ceil(n) == (n + 7) \div 8

\* max(1, len(pos) // 8)
CornerStride(n) == IF n \div 8 > 1 THEN n \div 8 ELSE 1

\* np.arange(start, stop, step) for a positive step
RECURSIVE Arange(_, _, _)
Arange(start, stop, step) ==
    IF start >= stop THEN <<>> ELSE <<start>> \o Arange(start + step, stop, step)

\* The corner markers of a trace of n samples: for idx, i in
\* enumerate(corner_indices) a circle at sample i with the text str(idx + 1)
\* (idx counts from 0 in the code, from 1 here)
CornerMarkers(n) ==
    LET corner_indices == Arange(0, n, CornerStride(n))
    IN [idx \in 1..Len(corner_indices) |->
            [i |-> corner_indices[idx], label |-> IntStr((idx - 1) + 1)]]

DefaultFigsize == <<[ip |-> 16, fp |-> <<>>], [ip |-> 9, fp |-> <<>>]>>

\* f'{gp_name} ({year})'
DrawTitle(gp_name, year) == gp_name \o <<" ", "(">> \o IntStr(year) \o <<")">>

\* draw_f1_circuit: the year loop, then the plot.  fault: the plotting code raises.
DrawF1Circuit(year, gp_name, max_years_back, angle_rad, show_axes, figsize, require_official, prov, circ, fault) ==
    LET args == [year |-> year, gp_name |-> gp_name, max_years_back |-> max_years_back]
        Raised(loop) ==
            [kind |-> "raise", exc |-> loop.exc, exit |-> loop.exit, image_data |-> <<>>,
             title |-> <<>>, year |-> year, asked |-> loop.asked, args |-> args]
        PlotRaised(loop) ==
            [kind |-> "raise", exc |-> OtherException, exit |-> "plot", image_data |-> <<>>,
             title |-> <<>>, year |-> loop.year, asked |-> loop.asked, args |-> args]
        Returned(loop) ==
            [kind |-> "return", exc |-> "", exit |-> "break", args |-> args,
             image_data |-> B64Encode(Png(gp_name, loop.year,
                                RotationApplied(angle_rad, circ, require_official),
                                show_axes, figsize)),
             title |-> DrawTitle(gp_name, loop.year), year |-> loop.year,
             asked |-> loop.asked]
    IN CHOOSE result \in
            {IF loop.kind = "raise" THEN Raised(loop)
             ELSE IF fault THEN PlotRaised(loop)
             ELSE Returned(loop) :
                loop \in {YearLoop(year, year, max_years_back, prov, <<>>)}} : TRUE

\* No call of draw_f1_circuit was made
NoDraw == [kind |-> "none", exc |-> "", exit |-> "", image_data |-> <<>>, title |-> <<>>, year |-> 0, asked |-> <<>>, args |-> [year |-> 0, gp_name |-> <<>>, max_years_back |-> 0]]

\* ---------------------------------------------------------- track_image

\* A cache key that leaves the show_axes flag out
CacheKey_NoAxes(year, gp_name_sanitized, angle, show_axes, figsize) ==
    IntStr(year) \o <<":">> \o gp_name_sanitized \o <<":">> \o OptStr(angle) \o <<":">>
        \o FigsizeStr(figsize)

\* f"{year}:{gp_name_sanitized}:{angle}:{show_axes}:{figsize}"; the SHA-256 file
\* name is one-to-one with this text, so the text stands for the cache file
CacheKey(year, gp_name_sanitized, angle, show_axes, figsize) ==
    IntStr(year) \o <<":">> \o gp_name_sanitized \o <<":">> \o OptStr(angle) \o <<":">>
        \o BoolStr(show_axes) \o <<":">> \o FigsizeStr(figsize)

\* bool(int(flag)) with the except-branch default
FlagValue(raw) == IF IsNone(ParseInt(raw)) THEN FALSE ELSE Val(ParseInt(raw)) # 0

\* figsize = (float(w), float(h)) when both are given; "bad" when float() raises
FigsizeOf(w, h) ==
    IF IsNone(w) \/ IsNone(h) THEN [bad |-> FALSE, size |-> None]
    ELSE IF IsNone(ParseFloat(Val(w))) \/ IsNone(ParseFloat(Val(h)))
    THEN [bad |-> TRUE, size |-> None]
    ELSE [bad |-> FALSE, size |-> Some(<<Val(ParseFloat(Val(w))), Val(ParseFloat(Val(h)))>>)]

\* angle_rad = None if angle is None else np.deg2rad(float(angle))
AngleBad(angle) == ~IsNone(angle) /\ IsNone(ParseFloat(Val(angle)))

\* The content of a file opened with 'wb' whose write then failed
EmptyBytes == [gp |-> <<>>, year |-> 0, rot |-> None, axes |-> FALSE, size |-> <<>>]

\* A flask Response / an abort(status): body is None for an abort
ImageResponse(status, body, cc) ==
    [status |-> status, body |-> body, cc |-> cc, image_data |-> <<>>, title |-> <<>>,
     data_available |-> FALSE, source_year |-> 0]

\* A removal that leaves the file in place
RemoveFile_Keep(files, key, del_ok) == files

\* A removal that empties the whole cache directory
RemoveFile_All(files, key, del_ok) == IF del_ok THEN <<>> ELSE files

\* os.remove inside try/except: the file is gone unless the removal failed
RemoveFile(files, key, del_ok) ==
    IF del_ok THEN [k \in DOMAIN files \ {key} |-> files[k]] ELSE files

\* A write that leaves an existing file alone
WriteFile_KeepExisting(files, key, bytes, wr) ==
    IF wr = "open_failed" \/ key \in DOMAIN files THEN files
    ELSE [k \in DOMAIN files \cup {key} |->
            IF k = key THEN (IF wr = "ok" THEN bytes ELSE EmptyBytes) ELSE files[k]]

\* open(cache_file, 'wb') + write inside try/except.  wr = "ok": the bytes are
\* stored; "open_failed": the file is untouched; "write_failed": the file was
\* created or truncated and holds no bytes
WriteFile(files, key, bytes, wr) ==
    IF wr = "open_failed" THEN files
    ELSE [k \in DOMAIN files \cup {key} |->
            IF k = key THEN (IF wr = "ok" THEN bytes ELSE EmptyBytes) ELSE files[k]]

\* The except clauses of track_image: abort(404) for SessionNotAvailableError,
\* abort(500) for every other exception
ErrorStatus(exc) == IF exc = SessionNotAvailableError THEN 404 ELSE 500

\* A cache file opened for writing before the render, left empty when it fails
StoreRendered_OpenFirst(files, key, d, wr) ==
    [k \in DOMAIN files \cup {key} |->
        IF k = key THEN (IF d.kind = "return" /\ wr = "ok" THEN B64Decode(d.image_data)
                         ELSE EmptyBytes)
        ELSE files[k]]

\* The cache after draw_f1_circuit ended as d: the write is reached only when it returned
StoreRendered(files, key, d, wr) ==
    IF d.kind = "return" THEN WriteFile(files, key, B64Decode(d.image_data), wr) ELSE files

\* A failed cache write turned into an error response
RenderedResponse_FailOnWrite(img_bytes, refresh_flag, wr) ==
    IF wr = "ok"
    THEN ImageResponse(200, Some(img_bytes), IF refresh_flag THEN "no-cache" ELSE "public")
    ELSE ImageResponse(500, None, <<>>)

\* The response built after the cache write, however the write ended
RenderedResponse(img_bytes, refresh_flag, wr) ==
    ImageResponse(200, Some(img_bytes), IF refresh_flag THEN "no-cache" ELSE "public")

\* The try-block of track_image (lines 421-455) for a request that got past the
\* cache look-up: files is the cache after the refresh removal
GenerateFresh(rq, key, show_axes, figsize, refresh_flag, files, env) ==
    IF ~IsNone(rq.angle)
    THEN \* abort(400) raises inside the try and is caught by `except Exception`
         [resp |-> ImageResponse(ErrorStatus(OtherException), None, <<>>), cache |-> files,
          draw |-> NoDraw, wrote |-> FALSE]
    ELSE CHOOSE result \in
            {[resp |-> IF d.kind = "raise"
                       THEN ImageResponse(ErrorStatus(d.exc), None, <<>>)
                       ELSE RenderedResponse(B64Decode(d.image_data), refresh_flag, env.wr),
              cache |-> StoreRendered(files, key, d, env.wr),
              draw |-> d, wrote |-> d.kind = "return"] :
                d \in {DrawF1Circuit(rq.year, Replace(rq.gp_name, <<" ">>, <<"_">>), 1, None,
                          show_axes,
                          IF IsNone(figsize) THEN DefaultFigsize ELSE Val(figsize),
                          TRUE, env.prov, env.circ, env.fault)}} : TRUE

\* A look-up that never serves the stored file
CacheHit_Never(exists, refresh_flag) == FALSE

\* Line 406: serve the stored file
CacheHit(exists, refresh_flag) == exists /\ ~refresh_flag

\* Lines 368-404 of track_image: the parameters parsed and the cache key.
\* bad: abort(400) for an angle, w or h that float() rejects
ParseRequest(rq) ==
    LET gp_name_sanitized == Replace(rq.gp_name, <<" ">>, <<"_">>)
        show_axes == FlagValue(rq.show_axes)
        fs == FigsizeOf(rq.w, rq.h)
    IN [bad |-> AngleBad(rq.angle) \/ fs.bad,
        gp_name_sanitized |-> gp_name_sanitized, angle |-> rq.angle,
        show_axes |-> show_axes, figsize |-> fs.size,
        refresh_flag |-> FlagValue(rq.refresh),
        key |-> CacheKey(rq.year, gp_name_sanitized, rq.angle, show_axes, fs.size)]

\* track_image(year, gp_name) with the query parameters angle, show_axes, w, h,
\* refresh (rq), the cache files and the environment's answers (env):
\*   prov   the provider's outcome per year      circ, fault  the plot's inputs
\*   del_ok whether os.remove succeeds           wr           how the write ends
\* Result: the response, the cache afterwards, the draw_f1_circuit call made,
\* the cache key (None when rejected before it is computed), and which of the
\* environment's answers were consulted.
TrackImage(rq, files, env) ==
    LET noenv == [del |-> FALSE, draw |-> FALSE, plot |-> FALSE, write |-> FALSE]
        Rejected == [resp |-> ImageResponse(400, None, <<>>), cache |-> files,
                     draw |-> NoDraw, key |-> None, used |-> noenv]
        Served(pr) == [resp |-> ImageResponse(200, Some(files[pr.key]), "public"),
                       cache |-> files, draw |-> NoDraw, key |-> Some(pr.key),
                       used |-> noenv]
        Generated(pr, removing) ==
            CHOOSE result \in
                {[resp |-> g.resp, cache |-> g.cache, draw |-> g.draw, key |-> Some(pr.key),
                  used |-> [del |-> removing, draw |-> g.draw.kind # "none",
                            plot |-> g.draw.exit \in {"break", "plot"},
                            write |-> g.wrote]] :
                    g \in {GenerateFresh(rq, pr.key, pr.show_axes, pr.figsize,
                              pr.refresh_flag,
                              IF removing THEN RemoveFile(files, pr.key, env.del_ok)
                              ELSE files,
                              env)}} : TRUE
    IN CHOOSE result \in
            {IF pr.bad THEN Rejected
             ELSE IF CacheHit(pr.key \in DOMAIN files, pr.refresh_flag) THEN Served(pr)
             ELSE Generated(pr, pr.key \in DOMAIN files /\ pr.refresh_flag) :
                pr \in {ParseRequest(rq)}} : TRUE

\* ------------------------------------------------------ the page routes

\* render_template(...) with the track variables of the three page routes
PageResponse(image_data, title, data_available, source_year) ==
    [status |-> 200, body |-> None, cc |-> <<>>, image_data |-> image_data,
     title |-> title, data_available |-> data_available, source_year |-> source_year]

\* f"Track Data Unavailable for {name} ({year} or {year-1})"
UnavailableTitle(name, year) ==
    <<"Track Data Unavailable for ">> \o name \o <<" ", "(">> \o IntStr(year)
        \o <<" or ">> \o IntStr(year - 1) \o <<")">>

\* f"Error loading track data for {name}."
ErrorTitle(name) == <<"Error loading track data for ">> \o name \o <<".">>

\* s.replace(' Grand Prix', '').replace(' ', '_')
Sanitize(s) == Replace(Replace(s, GrandPrix, <<>>), <<" ">>, <<"_">>)

\* \s of the regular expressions (the names of the model hold no other blank)
IsSpace(c) == c = " "

\* [A-Za-z0-9_]
WordChars ==
    {"A", "B", "C", "D", "E", "F", "G", "H", "I", "J", "K", "L", "M", "N", "O", "P", "Q",
     "R", "S", "T", "U", "V", "W", "X", "Y", "Z", "a", "b", "c", "d", "e", "f", "g", "h",
     "i", "j", "k", "l", "m", "n", "o", "p", "q", "r", "s", "t", "u", "v", "w", "x", "y",
     "z", "0", "1", "2", "3", "4", "5", "6", "7", "8", "9", "_"}

IsWordChar(c) == c \in WordChars

EndsWith(s, p) == Len(s) >= Len(p) /\ SubSeq(s, Len(s) - Len(p) + 1, Len(s)) = p

RECURSIVE RStrip(_)
RStrip(s) == IF Len(s) > 0 /\ IsSpace(s[Len(s)]) THEN RStrip(SubSeq(s, 1, Len(s) - 1)) ELSE s

RECURSIVE LStrip(_)
LStrip(s) == IF Len(s) > 0 /\ IsSpace(Head(s)) THEN LStrip(Tail(s)) ELSE s

\* .str.replace(r"\s*Grand Prix$", "", regex=True): the match starts at the first
\* blank of the run in front of a final "Grand Prix"
RemoveTrailingGrandPrix(s) ==
    IF EndsWith(s, Tail(GrandPrix)) THEN RStrip(SubSeq(s, 1, Len(s) - Len(Tail(GrandPrix))))
    ELSE s

\* .str.replace(r"\s+", "_", regex=True): one underscore per run of blanks
RECURSIVE SpacesToUnderscore(_)
SpacesToUnderscore(s) ==
    IF Len(s) = 0 THEN <<>>
    ELSE IF IsSpace(Head(s)) THEN <<"_">> \o SpacesToUnderscore(LStrip(s))
    ELSE <<Head(s)>> \o SpacesToUnderscore(Tail(s))

\* .str.replace(r"[^A-Za-z0-9_]", "", regex=True)
DropPunctuation(s) == SelectSeq(s, IsWordChar)

\* schedule_page: the FastF1Name column computed from EventName
FastF1Name(EventName) ==
    DropPunctuation(SpacesToUnderscore(LStrip(RStrip(RemoveTrailingGrandPrix(EventName)))))

\* A page route that takes a ValueError for missing data
PageOutcome_ValueErrorUnavailable(d) ==
    IF d.kind = "return" THEN "ok"
    ELSE IF d.exc \in {SessionNotAvailableError, ValueError} THEN "unavailable" ELSE "error"

\* Which of the three branches of the page routes' try/except a call ends in
PageOutcome(d) ==
    IF d.kind = "return" THEN "ok"
    ELSE IF d.exc = SessionNotAvailableError THEN "unavailable" ELSE "error"

\* The try/except around draw_f1_circuit shared by next_race, race_view and
\* track_layout: ident is the name handed to draw_f1_circuit, shown the name
\* used in the two failure titles
PageTrack(year, ident, shown, env) ==
    CHOOSE result \in
        {[draw |-> d,
          resp |-> CASE PageOutcome(d) = "ok" ->
                          PageResponse(d.image_data, d.title, d.image_data # <<>>, d.year)
                     [] PageOutcome(d) = "unavailable" ->
                          PageResponse(<<>>, UnavailableTitle(shown, year), FALSE, year)
                     [] OTHER -> PageResponse(<<>>, ErrorTitle(shown), FALSE, year)] :
            d \in {DrawF1Circuit(year, ident, 1, None, FALSE, DefaultFigsize, TRUE,
                                 env.prov, env.circ, env.fault)}} : TRUE

PageResult(pt, files) ==
    [resp |-> pt.resp, cache |-> files, draw |-> pt.draw, key |-> None,
     used |-> [del |-> FALSE, draw |-> TRUE, plot |-> pt.draw.exit \in {"break", "plot"},
               write |-> FALSE]]

\* track_layout(year, gp_name)
TrackLayout(rq, files, env) ==
    PageResult(PageTrack(rq.year, Sanitize(rq.gp_name), rq.gp_name, env), files)

\* The season schedule of the current year: the EventName column
Schedule == {<<"A", " ", "B", " ", "G", "r", "a", "n", "d", " ", "P", "r", "i", "x">>, <<"M", " ", "G", "r", "a", "n", "d", " ", "P", "r", "i", "x">>}

\* race_view(year, gp_name): 404 unless an event of the schedule sanitizes to gp_name
RaceView(rq, files, env) ==
    IF ~\E ev \in Schedule : Sanitize(ev) = rq.gp_name
    THEN [resp |-> ImageResponse(404, None, <<>>), cache |-> files, draw |-> NoDraw,
          key |-> None,
          used |-> [del |-> FALSE, draw |-> FALSE, plot |-> FALSE, write |-> FALSE]]
    ELSE PageResult(PageTrack(rq.year, rq.gp_name, rq.gp_name, env), files)

\* next_race(): rq.year is the current year and rq.gp_name the EventName of the
\* event get_next_event picked
NextRace(rq, files, env) ==
    PageResult(PageTrack(rq.year, Sanitize(rq.gp_name), Sanitize(rq.gp_name), env), files)

\* ------------------------------------------------------- the state machine

VARIABLES
    cache,   \* cache/generated: cache key -> stored bytes
    before,  \* the cache as the last request found it
    op,      \* the last request: route, parameters, cache key, environment
    draw,    \* the call of draw_f1_circuit the last request made (NoDraw: none)
    resp,    \* the response to the last request
    pair,    \* two image requests and the cache keys track_image computes for them
    ident,   \* an event name and the identifier each entry point derives from it
    marks,   \* a positional trace, its circuit metadata and the corner markers drawn
    call,    \* one direct call of draw_f1_circuit: its arguments and how it ended
    procs    \* the track_image requests in flight at the same time, step by step

vars == <<cache, before, op, draw, resp, pair, ident, marks, call, procs>>

\* The season asked for (and the current season of load_calendar)
BaseYear == 2024

\* The event names of the image requests
ImageNames == {<<"A", " ", "B">>}

PageNames == Schedule \cup {Sanitize(ev) : ev \in Schedule}

CircNone == [st |-> "none", rotation |-> None, corners |-> <<>>]

\* The corners attribute of a CircuitInfo: Number and Letter of each corner
Corners == <<[Number |-> 1, Letter |-> <<>>], [Number |-> 2, Letter |-> <<"A">>]>>

Circs == {CircNone, [st |-> "raises", rotation |-> None, corners |-> <<>>],
          [st |-> "info", rotation |-> None, corners |-> Corners],
          [st |-> "info", rotation |-> Some(30), corners |-> Corners]}

WriteOutcomes == {"ok", "open_failed", "write_failed"}

\* The provider's outcomes for the two years a call with max_years_back = 1 can ask
ProvOf(year, o0, o1) == [y \in {year - 1, year} |-> IF y = year THEN o0 ELSE o1]

DefaultEnv(year) ==
    [prov |-> ProvOf(year, "loaded", "loaded"), circ |-> CircNone, fault |-> FALSE,
     del_ok |-> TRUE, wr |-> "ok"]

\* The show_axes, w, h parameters of the image requests: the defaults, a figure
\* size, a malformed width with a height, and a malformed width alone
Shapes ==
    {[show_axes |-> <<"0">>, w |-> None, h |-> None],
     [show_axes |-> <<"1">>, w |-> Some(<<"8">>), h |-> Some(<<"6">>)],
     [show_axes |-> <<"0">>, w |-> Some(<<"x">>), h |-> Some(<<"6">>)],
     [show_axes |-> <<"0">>, w |-> Some(<<"x">>), h |-> None]}

\* The angle parameter of the image requests: absent, a number, malformed
Angles == {None, Some(<<"1", "5">>), Some(<<"x">>)}

ImageRequests ==
    {[year |-> BaseYear, gp_name |-> n, angle |-> a, show_axes |-> sh.show_axes,
      w |-> sh.w, h |-> sh.h, refresh |-> r] :
        n \in ImageNames, a \in Angles, sh \in Shapes,
        r \in {<<"0">>, <<"1">>}}

PageRequests ==
    [year : {BaseYear}, gp_name : PageNames, angle : {None}, show_axes : {<<"0">>},
     w : {None}, h : {None}, refresh : {<<"0">>}]

NextRaceRequests ==
    [year : {BaseYear}, gp_name : Schedule, angle : {None}, show_axes : {<<"0">>},
     w : {None}, h : {None}, refresh : {<<"0">>}]

Handle(route, rq, files, env) ==
    CASE route = "track_image" -> TrackImage(rq, files, env)
      [] route = "track_layout" -> TrackLayout(rq, files, env)
      [] route = "race_view" -> RaceView(rq, files, env)
      [] OTHER -> NextRace(rq, files, env)

\* An answer of the environment that the handler never consults keeps its default
Choice(consulted, values, default) == IF consulted THEN values ELSE {default}

\* One request, handled to its response, for every answer of the environment:
\* the provider answers from outcomes, the circuit metadata is one of circs
Serve(route, rq, outcomes, circs) ==
    /\ op.route = "none"
    /\ \E e0 \in {DefaultEnv(rq.year)} :
       \E r0 \in {Handle(route, rq, cache, e0)} :
       \E del_ok \in Choice(r0.used.del, BOOLEAN, TRUE) :
       \E o0 \in Choice(r0.used.draw, outcomes, "loaded") :
       \E e1 \in {[e0 EXCEPT !.del_ok = del_ok, !.prov = ProvOf(rq.year, o0, "loaded")]} :
       \E r1 \in {Handle(route, rq, cache, e1)} :
       \E o1 \in Choice(Len(r1.draw.asked) > 1, outcomes, "loaded") :
       \E fault \in Choice(r1.used.draw, BOOLEAN, FALSE) :
       \E circ \in Choice(r1.used.draw /\ ~fault, circs, CircNone) :
       \E wr \in Choice(r1.used.draw /\ ~fault, WriteOutcomes, "ok") :
       \E env \in {[e1 EXCEPT !.prov = ProvOf(rq.year, o0, o1), !.fault = fault,
                               !.circ = circ, !.wr = wr]} :
       \E r \in {Handle(route, rq, cache, env)} :
          \* an answer the handler did not consult keeps its default
          /\ r.used.plot \/ (~fault /\ circ = CircNone)
          /\ r.used.write \/ wr = "ok"
          /\ cache' = r.cache
          /\ before' = cache
          /\ op' = [route |-> route, rq |-> rq, key |-> r.key, env |-> env, used |-> r.used]
          /\ draw' = r.draw
          /\ resp' = r.resp
          /\ UNCHANGED <<pair, ident, marks, call, procs>>

NoRequest ==
    [year |-> 0, gp_name |-> <<>>, angle |-> None, show_axes |-> <<>>, w |-> None,
     h |-> None, refresh |-> <<>>]

NoOp ==
    [route |-> "none", rq |-> NoRequest, key |-> None, env |-> DefaultEnv(BaseYear),
     used |-> [del |-> FALSE, draw |-> FALSE, plot |-> FALSE, write |-> FALSE]]

NoResponse == ImageResponse(0, None, <<>>)

NoPair == [a |-> NoRequest, b |-> NoRequest, done |-> FALSE, ka |-> None, kb |-> None]

NoIdent ==
    [name |-> <<>>, done |-> FALSE, schedule_page |-> <<>>, next_race |-> <<>>,
     race_view |-> <<>>, track_layout |-> <<>>, track_image |-> <<>>]

NoMarks == [n |-> 0, circ |-> CircNone, done |-> FALSE, markers |-> <<>>]

NoCall ==
    [year |-> 0, max_years_back |-> 0, angle_rad |-> None, require_official |-> TRUE,
     prov |-> <<>>, circ |-> CircNone, fault |-> FALSE, done |-> FALSE, result |-> NoDraw]

NoProcs == <<>>

Init ==
    /\ pair = NoPair
    /\ ident = NoIdent
    /\ marks = NoMarks
    /\ call = NoCall
    /\ procs = NoProcs
    /\ cache = <<>>
    /\ before = <<>>
    /\ op = NoOp
    /\ draw = NoDraw
    /\ resp = NoResponse

TrackImageRequest ==
    \E rq \in ImageRequests : Serve("track_image", rq, ProviderOutcomes, Circs)

TrackLayoutRequest ==
    \E rq \in PageRequests : Serve("track_layout", rq, ProviderOutcomes, Circs)

RaceViewRequest ==
    \E rq \in PageRequests : Serve("race_view", rq, ProviderOutcomes, Circs)

NextRaceRequest ==
    \E rq \in NextRaceRequests : Serve("next_race", rq, ProviderOutcomes, Circs)

\* The response has left the handler: the server waits for the next request
Respond ==
    /\ op.route # "none"
    /\ op' = NoOp
    /\ draw' = NoDraw
    /\ resp' = NoResponse
    /\ before' = <<>>
    /\ UNCHANGED <<cache, pair, ident, marks, call, procs>>

Next ==
    \/ TrackImageRequest
    \/ TrackLayoutRequest
    \/ RaceViewRequest
    \/ NextRaceRequest
    \/ Respond

Spec == Init /\ [][Next]_vars

\* The cache key as a function: the parameters of two image requests
KeyRequests ==
    [year : {BaseYear - 1, BaseYear}, gp_name : {<<"A", " ", "B">>, <<"A", "_", "B">>, <<"A", ":", "1">>},
     angle : {None, Some(<<"1">>)}, show_axes : {<<"0">>, <<"1">>},
     w : {None, Some(<<"8">>), Some(<<"8", ".", "0">>)}, h : {Some(<<"6">>)},
     refresh : {<<"0">>, <<"1">>}]

InitKey ==
    /\ pair \in [a : KeyRequests, b : KeyRequests, done : {FALSE}, ka : {None}, kb : {None}]
    /\ ident = NoIdent
    /\ marks = NoMarks
    /\ call = NoCall
    /\ procs = NoProcs
    /\ cache = <<>>
    /\ before = <<>>
    /\ op = NoOp
    /\ draw = NoDraw
    /\ resp = NoResponse

\* The key of a request that is not rejected before the key is computed
KeyOf(rq) == IF ParseRequest(rq).bad THEN None ELSE Some(ParseRequest(rq).key)

ComputeKeys ==
    /\ ~pair.done
    /\ pair' = [pair EXCEPT !.done = TRUE, !.ka = KeyOf(pair.a), !.kb = KeyOf(pair.b)]
    /\ UNCHANGED <<cache, before, op, draw, resp, ident, marks, call, procs>>

NextKey == ComputeKeys

SpecKey == InitKey /\ [][NextKey]_vars

\* ------------------------------------------- the identifier as a function

\* The longest text in front of the optional " Grand Prix" of an event name
MaxStem == 3

StemChars == {"A", " ", "-"}

RECURSIVE Texts(_, _)
Texts(chars, n) ==
    IF n = 0 THEN {<<>>}
    ELSE Texts(chars, n - 1)
         \cup {Append(t, c) : t \in {u \in Texts(chars, n - 1) : Len(u) = n - 1}, c \in chars}

\* EventName values of the schedule
EventNames == {stem \o suffix : stem \in Texts(StemChars, MaxStem), suffix \in {<<>>, GrandPrix}}

InitIdent ==
    /\ ident \in {[NoIdent EXCEPT !.name = ev] : ev \in EventNames}
    /\ pair = NoPair
    /\ marks = NoMarks
    /\ call = NoCall
    /\ procs = NoProcs
    /\ cache = <<>>
    /\ before = <<>>
    /\ op = NoOp
    /\ draw = NoDraw
    /\ resp = NoResponse

\* The identifier each entry point derives from the name: the FastF1Name column
\* of schedule_page, the identifier next_race and track_layout hand to
\* draw_f1_circuit, the one race_view matches against, and gp_name_sanitized
\* of track_image
DeriveIdentifiers ==
    /\ ~ident.done
    /\ \E rq \in {[NoRequest EXCEPT !.year = BaseYear, !.gp_name = ident.name]} :
       \E env \in {DefaultEnv(BaseYear)} :
          ident' = [ident EXCEPT
                      !.done = TRUE,
                      !.schedule_page = FastF1Name(ident.name),
                      !.next_race = NextRace(rq, <<>>, env).draw.args.gp_name,
                      !.race_view = Sanitize(ident.name),
                      !.track_layout = TrackLayout(rq, <<>>, env).draw.args.gp_name,
                      !.track_image = ParseRequest(rq).gp_name_sanitized]
    /\ UNCHANGED <<cache, before, op, draw, resp, pair, marks, call, procs>>

NextIdent == DeriveIdentifiers

SpecIdent == InitIdent /\ [][NextIdent]_vars

\* --------------------------------------- draw_f1_circuit called directly

\* The largest max_years_back of a call
MaxBack == 2

\* angle_rad of a call: absent, or a quarter of pi
AngleRads == {None, Some([num |-> 1, den |-> 4])}

\* A call draw_f1_circuit(BaseYear, 'M', max_years_back=mb, angle_rad=...,
\* require_official=...) and the environment's answers: the provider's outcome
\* for each year of the range, the circuit metadata, whether the plot raises
InitDraw ==
    /\ \E mb \in 0..MaxBack :
          call \in {[NoCall EXCEPT !.year = BaseYear, !.max_years_back = mb, !.angle_rad = a,
                                   !.require_official = ro, !.prov = pv, !.circ = circ,
                                   !.fault = fault] :
                       a \in AngleRads, ro \in BOOLEAN,
                       pv \in [(BaseYear - mb)..BaseYear -> ProviderOutcomes],
                       circ \in Circs, fault \in BOOLEAN}
    /\ pair = NoPair
    /\ ident = NoIdent
    /\ marks = NoMarks
    /\ procs = NoProcs
    /\ cache = <<>>
    /\ before = <<>>
    /\ op = NoOp
    /\ draw = NoDraw
    /\ resp = NoResponse

DrawCircuit ==
    /\ ~call.done
    /\ call' = [call EXCEPT
                  !.done = TRUE,
                  !.result = DrawF1Circuit(call.year, <<"M">>, call.max_years_back,
                                 call.angle_rad, FALSE, DefaultFigsize,
                                 call.require_official, call.prov, call.circ, call.fault)]
    /\ UNCHANGED <<cache, before, op, draw, resp, pair, ident, marks, procs>>

NextDraw == DrawCircuit

SpecDraw == InitDraw /\ [][NextDraw]_vars

\* -------------------------------------------------- the corner markers

\* The longest positional trace
MaxTrace == 64

\* A non-empty positional trace (an empty one never reaches the plot) and the
\* circuit metadata of its session
InitMarks ==
    /\ marks \in {[NoMarks EXCEPT !.n = n, !.circ = circ] : n \in 1..MaxTrace, circ \in Circs}
    /\ pair = NoPair
    /\ ident = NoIdent
    /\ call = NoCall
    /\ procs = NoProcs
    /\ cache = <<>>
    /\ before = <<>>
    /\ op = NoOp
    /\ draw = NoDraw
    /\ resp = NoResponse

\* The plot marks the corners: session_circ is not consulted
MarkCorners ==
    /\ ~marks.done
    /\ marks' = [marks EXCEPT !.done = TRUE, !.markers = CornerMarkers(marks.n)]
    /\ UNCHANGED <<cache, before, op, draw, resp, pair, ident, call, procs>>

NextMarks == MarkCorners

SpecMarks == InitMarks /\ [][NextMarks]_vars

\* ------------------------------------- track_image requests in parallel

\* The requests the server handles at the same time (one thread each)
NumThreads == 2

Threads == 1..NumThreads

\* A thread between two requests
NoThread ==
    [pc |-> "idle", rq |-> NoRequest, key |-> <<>>, refresh_flag |-> FALSE,
     saw_refresh |-> FALSE, img_bytes |-> None, unlinked |-> FALSE, error |-> "",
     resp |-> NoResponse]

\* GET /track_image/<BaseYear>/A%20B with or without refresh=1: one cache key
ParallelRequests ==
    [year : {BaseYear}, gp_name : ImageNames, angle : {None}, show_axes : {<<"0">>},
     w : {None}, h : {None}, refresh : {<<"0">>, <<"1">>}]

\* What the provider does for a render: data, no session in either year, a fault
RenderOutcomes == {"loaded", "not_available", "fault"}

InitParallel ==
    /\ procs = [t \in Threads |-> NoThread]
    /\ cache = <<>>
    /\ pair = NoPair
    /\ ident = NoIdent
    /\ marks = NoMarks
    /\ call = NoCall
    /\ before = <<>>
    /\ op = NoOp
    /\ draw = NoDraw
    /\ resp = NoResponse

InFlight(t) == procs[t].pc \notin {"idle", "done"}

\* Lines 368-404: the parameters are parsed and the cache file is named.
\* saw_refresh records that the request overlapped one with refresh.
Receive(t) ==
    /\ procs[t].pc = "idle"
    /\ \E rq \in ParallelRequests :
       \E pr \in {ParseRequest(rq)} :
          procs' = [u \in Threads |->
                      IF u = t
                      THEN [NoThread EXCEPT
                              !.pc = "lookup", !.rq = rq, !.key = pr.key,
                              !.refresh_flag = pr.refresh_flag,
                              !.saw_refresh = \E v \in Threads \ {t} :
                                                 InFlight(v) /\ procs[v].refresh_flag]
                      ELSE IF InFlight(u) /\ pr.refresh_flag
                      THEN [procs[u] EXCEPT !.saw_refresh = TRUE]
                      ELSE procs[u]]
    /\ UNCHANGED <<cache, before, op, draw, resp, pair, ident, marks, call>>

\* Line 406: os.path.exists(cache_file) and not refresh_flag
Lookup(t) ==
    /\ procs[t].pc = "lookup"
    /\ procs' = [procs EXCEPT ![t].pc =
                    IF CacheHit(procs[t].key \in DOMAIN cache, procs[t].refresh_flag)
                    THEN "read" ELSE "exists"]
    /\ UNCHANGED <<cache, before, op, draw, resp, pair, ident, marks, call>>

\* Lines 407-411: open(cache_file, 'rb') and read, outside any try: a file that
\* is gone by now raises FileNotFoundError out of the handler
ReadFile(t) ==
    /\ procs[t].pc = "read"
    /\ procs' = [procs EXCEPT ![t] =
                    IF procs[t].key \in DOMAIN cache
                    THEN [@ EXCEPT !.pc = "done",
                                   !.resp = ImageResponse(200, Some(cache[procs[t].key]), "public")]
                    ELSE [@ EXCEPT !.pc = "done", !.error = "FileNotFoundError",
                                   !.resp = ImageResponse(500, None, <<>>)]]
    /\ UNCHANGED <<cache, before, op, draw, resp, pair, ident, marks, call>>

\* Line 414: os.path.exists(cache_file) and refresh_flag
CheckRemove(t) ==
    /\ procs[t].pc = "exists"
    /\ procs' = [procs EXCEPT ![t].pc =
                    IF procs[t].key \in DOMAIN cache /\ procs[t].refresh_flag
                    THEN "remove" ELSE "render"]
    /\ UNCHANGED <<cache, before, op, draw, resp, pair, ident, marks, call>>

\* Lines 415-418: os.remove inside try/except.  A thread that has the removed
\* file open for writing keeps writing to a file without a name (unlinked).
Remove(t) ==
    /\ procs[t].pc = "remove"
    /\ \E del_ok \in BOOLEAN :
          /\ cache' = RemoveFile(cache, procs[t].key, del_ok)
          /\ procs' = [u \in Threads |->
                         IF u = t THEN [procs[u] EXCEPT !.pc = "render"]
                         ELSE IF procs[u].pc = "write" /\ procs[u].key \notin DOMAIN cache'
                         THEN [procs[u] EXCEPT !.unlinked = TRUE]
                         ELSE procs[u]]
    /\ UNCHANGED <<before, op, draw, resp, pair, ident, marks, call>>

\* Lines 421-434 and 450-455: draw_f1_circuit and the decoded bytes, or abort
Render(t) ==
    /\ procs[t].pc = "render"
    /\ \E o \in RenderOutcomes :
       \E d \in {DrawF1Circuit(procs[t].rq.year, ParseRequest(procs[t].rq).gp_name_sanitized,
                       1, None, FALSE, DefaultFigsize, TRUE,
                       ProvOf(procs[t].rq.year, o, o), CircNone, FALSE)} :
          procs' = [procs EXCEPT ![t] =
                      IF d.kind = "raise"
                      THEN [@ EXCEPT !.pc = "done",
                                     !.resp = ImageResponse(ErrorStatus(d.exc), None, <<>>)]
                      ELSE [@ EXCEPT !.pc = "open",
                                     !.img_bytes = Some(B64Decode(d.image_data))]]
    /\ UNCHANGED <<cache, before, op, draw, resp, pair, ident, marks, call>>

\* Line 437: open(cache_file, 'wb') creates the file or empties the existing one
OpenForWrite(t) ==
    /\ procs[t].pc = "open"
    /\ cache' = WriteFile(cache, procs[t].key, Val(procs[t].img_bytes), "write_failed")
    /\ procs' = [procs EXCEPT ![t].pc = "write"]
    /\ UNCHANGED <<before, op, draw, resp, pair, ident, marks, call>>

\* Lines 438-449: f.write(img_bytes), the file is closed, the response is built
WriteBytes(t) ==
    /\ procs[t].pc = "write"
    /\ cache' = IF procs[t].unlinked THEN cache
                 ELSE WriteFile(cache, procs[t].key, Val(procs[t].img_bytes), "ok")
    /\ procs' = [procs EXCEPT
                   ![t].pc = "done",
                   ![t].resp = RenderedResponse(Val(procs[t].img_bytes),
                                   procs[t].refresh_flag, "ok")]
    /\ UNCHANGED <<before, op, draw, resp, pair, ident, marks, call>>

\* The response is sent and the thread is free for the next request
Finish(t) ==
    /\ procs[t].pc = "done"
    /\ procs' = [procs EXCEPT ![t] = NoThread]
    /\ UNCHANGED <<cache, before, op, draw, resp, pair, ident, marks, call>>

NextParallel ==
    \E t \in Threads :
        \/ Receive(t)
        \/ Lookup(t)
        \/ ReadFile(t)
        \/ CheckRemove(t)
        \/ Remove(t)
        \/ Render(t)
        \/ OpenForWrite(t)
        \/ WriteBytes(t)
        \/ Finish(t)

SpecParallel == InitParallel /\ [][NextParallel]_vars

\* ------------------------------------------------------------ the claims

\* The last request reached draw_f1_circuit (always with max_years_back = 1)
Drew == draw.kind # "none"

IsImage == op.route = "track_image"
IsPage == op.route \in {"track_layout", "race_view", "next_race"}

\* The provider's answer for the requested year and for the year before it
AtYear == op.env.prov[op.rq.year]
AtPrevYear == op.env.prov[op.rq.year - 1]

\* The three reasons for which a year has no usable data
NoData == {"not_available", "no_laps", "no_pos"}

\* The cache file of the last image request
Key == Val(op.key)

\* The name the failure titles of the page routes show
ShownName == IF op.route = "track_layout" THEN op.rq.gp_name ELSE draw.args.gp_name

\* C1: with max_years_back = 1, when the requested year has no usable data (no
\* session, no laps, no positional trace) and the year before has laps and a
\* trace, draw_f1_circuit returns (the plot not failing) with effective year
\* year - 1 and the title "<identifier> (<year - 1>)".
C1_FallbackToPreviousYear ==
    (Drew /\ draw.args.max_years_back = 1 /\ AtYear \in NoData /\ AtPrevYear = "loaded"
          /\ ~op.env.fault)
    => /\ draw.kind = "return"
       /\ draw.year = op.rq.year - 1
       /\ draw.asked = <<op.rq.year, op.rq.year - 1>>
       /\ draw.title = draw.args.gp_name \o <<" ", "(">> \o IntStr(op.rq.year - 1) \o <<")">>
       /\ draw.image_data # <<>>

C1_Witness ==
    /\ Drew /\ AtYear = "no_pos" /\ AtPrevYear = "loaded" /\ ~op.env.fault
    /\ draw.kind = "return" /\ draw.year = BaseYear - 1
    /\ draw.title = <<"A", "_", "B", " ", "(", "2", "0", "2", "3", ")">>

\* C2: when the requested year and the year before both have no usable data (in
\* any combination of the three reasons), draw_f1_circuit raises
\* SessionNotAvailableError: track_image answers 404 and the page routes show
\* the 'Track Data Unavailable' title, never the generic error.
C2_AllYearsFailUnavailable ==
    (Drew /\ AtYear \in NoData /\ AtPrevYear \in NoData)
    => /\ draw.kind = "raise" /\ draw.exc = SessionNotAvailableError
       /\ IsImage => resp.status = 404
       /\ IsPage => resp.title[1] = "Track Data Unavailable for "

\* C3: track_image answers a request whose angle parameter parses as a number
\* with a 400, never with an image and never with a 5xx.
C3_AngleOverrideRejected400 ==
    (IsImage /\ ~IsNone(op.rq.angle) /\ ~AngleBad(op.rq.angle)) => resp.status = 400

\* C4: a track_image request without refresh whose cache file exists is answered
\* with exactly the stored bytes, draw_f1_circuit (and the provider) is not
\* called, and the cache is left as it was.
C4_CacheHitServedVerbatim ==
    (IsImage /\ ~IsNone(op.key) /\ op.rq.refresh = <<"0">> /\ Key \in DOMAIN before)
    => /\ resp.status = 200
       /\ resp.body = Some(before[Key])
       /\ draw = NoDraw
       /\ cache = before

C4_Witness ==
    /\ IsImage /\ op.rq.refresh = <<"0">> /\ ~IsNone(op.key) /\ Key \in DOMAIN before
    /\ resp.body = Some(before[Key]) /\ before[Key].year = BaseYear - 1
    /\ Cardinality(DOMAIN cache) = 2

\* The bytes draw_f1_circuit rendered for the last request
Fresh == B64Decode(draw.image_data)

\* C5 as stated: a refresh request without an angle always calls
\* draw_f1_circuit, and when it returns the response carries the fresh bytes and
\* the cache file holds the fresh bytes afterwards.
C5_RefreshStoresFreshBytes ==
    (IsImage /\ ~IsNone(op.key) /\ op.rq.refresh = <<"1">> /\ IsNone(op.rq.angle))
    => /\ Drew
       /\ draw.kind = "return"
            => /\ resp.status = 200 /\ resp.body = Some(Fresh)
               /\ Key \in DOMAIN cache /\ cache[Key] = Fresh

\* C5 amended: a refresh request without an angle always calls draw_f1_circuit,
\* also when the removal of the existing file failed; when it returns, the
\* response carries the fresh bytes, and when moreover the write of the cache
\* file succeeds the file holds the fresh bytes afterwards.
C5_RefreshRendersAndStoresWhenWritten ==
    (IsImage /\ ~IsNone(op.key) /\ op.rq.refresh = <<"1">> /\ IsNone(op.rq.angle))
    => /\ Drew
       /\ draw.asked # <<>>
       /\ draw.kind = "return"
            => /\ resp.status = 200 /\ resp.body = Some(Fresh)
               /\ op.env.wr = "ok" => (Key \in DOMAIN cache /\ cache[Key] = Fresh)

C5_Witness ==
    /\ IsImage /\ op.rq.refresh = <<"1">> /\ IsNone(op.rq.angle)
    /\ Key \in DOMAIN before /\ ~op.env.del_ok /\ op.used.del
    /\ draw.kind = "return" /\ op.env.wr = "ok"
    /\ before[Key] # Fresh /\ cache[Key] = Fresh /\ resp.body = Some(Fresh)

\* The five fields of a request that the claim lets the key depend on
KeyFields(rq) ==
    <<rq.year, ParseRequest(rq).gp_name_sanitized, rq.angle, ParseRequest(rq).show_axes,
      ParseRequest(rq).figsize>>

\* C6: the cache key depends on (year, sanitized identifier, angle, show_axes,
\* figsize) and on nothing else: two requests get the same key exactly when they
\* agree on these five fields, whatever their refresh flags.
C6_KeyDeterminedByFiveFields ==
    (pair.done /\ ~IsNone(pair.ka) /\ ~IsNone(pair.kb))
    => (pair.ka = pair.kb <=> KeyFields(pair.a) = KeyFields(pair.b))

C6_Witness ==
    /\ pair.done /\ ~IsNone(pair.ka) /\ pair.ka = pair.kb
    /\ pair.a.refresh # pair.b.refresh /\ pair.a.gp_name # pair.b.gp_name
    /\ pair.a.w # pair.b.w

C6_WitnessDiffer ==
    /\ pair.done /\ ~IsNone(pair.ka) /\ ~IsNone(pair.kb) /\ pair.ka # pair.kb
    /\ pair.a.refresh = pair.b.refresh /\ pair.a.gp_name = pair.b.gp_name
    /\ pair.a.year = pair.b.year /\ pair.a.angle = pair.b.angle
    /\ pair.a.show_axes # pair.b.show_axes /\ pair.a.w = pair.b.w /\ pair.a.h = pair.b.h

\* C7: when draw_f1_circuit raises in track_image the response is 404
\* (SessionNotAvailableError) or 500 (anything else) without a body, and every
\* cache file present afterwards was there before with the same bytes.
C7_FailedRenderCachesNothing ==
    (IsImage /\ draw.kind = "raise")
    => /\ resp.status = (IF draw.exc = "SessionNotAvailableError" THEN 404 ELSE 500)
       /\ resp.body = None
       /\ \A k \in DOMAIN cache : k \in DOMAIN before /\ cache[k] = before[k]

C7_Witness ==
    /\ IsImage /\ draw.kind = "raise" /\ draw.exc = "SessionNotAvailableError"
    /\ resp.status = 404 /\ Key \notin DOMAIN cache /\ DOMAIN cache # {}

\* C8: when draw_f1_circuit returns and the write of the cache file fails,
\* track_image still answers 200 with the freshly rendered bytes.
C8_WriteFailureStillServesImage ==
    (IsImage /\ draw.kind = "return" /\ op.env.wr # "ok")
    => /\ resp.status = 200
       /\ resp.body = Some(Fresh)
       /\ resp.body # Some(EmptyBytes)

C8_Witness ==
    /\ IsImage /\ draw.kind = "return" /\ op.env.wr = "write_failed" /\ op.used.write
    /\ resp.status = 200 /\ resp.body = Some(Fresh) /\ cache[Key] = EmptyBytes

\* C9: a failure at the requested year that is neither 'session not available'
\* nor an empty lap set or trace is not retried: no earlier year is requested,
\* the failure propagates, and the boundaries report the generic failure.
C9_OtherFailureNotRetried ==
    (Drew /\ AtYear \in {"value_error", "fault"})
    => /\ draw.asked = <<op.rq.year>>
       /\ draw.kind = "raise" /\ draw.exc # SessionNotAvailableError
       /\ IsImage => resp.status = 500
       /\ IsPage => resp.title[1] = "Error loading track data for "

C11_SameIdentifierEverywhere ==
    ident.done
    => /\ ident.schedule_page = ident.next_race
       /\ ident.next_race = ident.race_view
       /\ ident.race_view = ident.track_layout
       /\ ident.track_layout = ident.track_image

\* A query parameter that is present and that float() rejects
Malformed(o) == ~IsNone(o) /\ IsNone(ParseFloat(Val(o)))

\* C12: track_image answers every request whose angle, w or h is present but
\* not a number with a 400, before it looks at the cache, removes or writes a
\* cache file or calls draw_f1_circuit: the cache is as the request found it.
C12_MalformedParameterRejected ==
    (IsImage /\ (Malformed(op.rq.angle) \/ Malformed(op.rq.w) \/ Malformed(op.rq.h)))
    => /\ resp.status = 400
       /\ resp.body = None
       /\ draw = NoDraw
       /\ cache = before
       /\ ~op.used.del /\ ~op.used.draw /\ ~op.used.write

\* The stride the claims name: max(1, floor(n / 8))
Stride == IF marks.n >= 16 THEN marks.n \div 8 ELSE 1

\* The markers sit at 0, s, 2s, ... < n and are labelled 1..k in that order
StridedAndNumbered ==
    LET k == Len(marks.markers)
    IN /\ k >= 1
       /\ (k - 1) * Stride < marks.n /\ marks.n <= k * Stride
       /\ \A j \in 1..k : marks.markers[j].i = (j - 1) * Stride
                            /\ marks.markers[j].label = IntStr(j)

NoCornerList == marks.circ.st # "info"

\* C13 as stated: without a corner list, the markers of a trace of n >= 1
\* samples sit at 0, s, 2s, ... < n with s = max(1, floor(n / 8)), are labelled
\* 1..k in ascending trace order, and are at most 8.
C13_AtMostEightMarkers ==
    (marks.done /\ NoCornerList)
    => /\ StridedAndNumbered
       /\ Len(marks.markers) <= 8

\* C13 amended: without a corner list, the markers of a trace of n >= 1 samples
\* sit at 0, s, 2s, ... < n with s = max(1, floor(n / 8)) and are labelled 1..k
\* in ascending trace order, where k = ceil(n / s): k = n for n < 8, k = 8 when
\* 8 divides n, and 9 <= k <= 15 for every other n (for n = 64: the indices
\* 0, 8, ..., 56 labelled 1..8).
C13_StridedMarkersCount ==
    (marks.done /\ NoCornerList)
    => /\ StridedAndNumbered
       /\ marks.n < 8 => Len(marks.markers) = marks.n
       /\ (marks.n >= 8 /\ marks.n % 8 = 0) => Len(marks.markers) = 8
       /\ (marks.n >= 8 /\ marks.n % 8 # 0) => Len(marks.markers) \in 9..15
       /\ marks.n = 64
            => marks.markers = [j \in 1..8 |-> [i |-> 8 * (j - 1), label |-> <<Digits[j + 1]>>]]

C13_Witness ==
    /\ marks.done /\ marks.circ.st = "none" /\ marks.n = 64
    /\ Len(marks.markers) = 8
    /\ marks.markers[8] = [i |-> 56, label |-> <<"8">>]

\* The label of an authoritative corner: its number followed by its letter
CornerLabel(c) == IntStr(c.Number) \o c.Letter

\* C14: when the session's circuit metadata has a corner list, one marker is
\* drawn per corner of the list, labelled with the corner's number followed by
\* its letter; the every-Nth-sample markers are drawn only without metadata.
C14_AuthoritativeCornersDrawn ==
    (marks.done /\ marks.circ.st = "info" /\ marks.circ.corners # <<>>)
    => /\ Len(marks.markers) = Len(marks.circ.corners)
       /\ \A j \in 1..Len(marks.markers) :
             marks.markers[j].label = CornerLabel(marks.circ.corners[j])

\* The years of the call's range, year down to year - max_years_back
Range == (call.year - call.max_years_back)..call.year

\* Years y down to the earliest, in the order of the requests
Descending(from, to) == [j \in 1..(from - to + 1) |-> from - j + 1]

\* C17: for every max_years_back >= 0, when some year y of the range has usable
\* data and every later year of the range lacks data (no session, no laps, no
\* positional trace), draw_f1_circuit requests year, year - 1, ..., y in that
\* order and returns (the plot not failing) with y as the effective year.
C17_WalkBackToLatestYearWithData ==
    (call.done /\ ~call.fault)
    => \A y \in Range :
         (call.prov[y] = "loaded" /\ \A z \in (y + 1)..call.year : call.prov[z] \in NoData)
         => /\ call.result.kind = "return"
            /\ call.result.year = y
            /\ call.result.asked = Descending(call.year, y)

\* The provider outcomes the year loop handles as missing data or a
\* data-quality error (SessionNotAvailableError, ValueError)
DataFailures == NoData \cup {"value_error"}

Rotation == B64Decode(call.result.image_data).rot

\* The circuit metadata was obtained and has a rotation
OfficialRotation == call.circ.st = "info" /\ ~IsNone(call.circ.rotation)

\* C19: the rotation of the rendered trace is (1) angle_rad when the caller
\* gave one, (2) else the circuit metadata's rotation, degrees as radians, when
\* there is one, (3) else none when require_official, (4) else -90 degrees; and
\* a get_circuit_info() that raises counts as no metadata: the call returns.
C19_RotationPrecedence ==
    /\ (call.done /\ call.result.kind = "return")
       => /\ ~IsNone(call.angle_rad) => Rotation = call.angle_rad
          /\ (IsNone(call.angle_rad) /\ OfficialRotation)
               => Rotation = Some([num |-> Val(call.circ.rotation), den |-> 180])
          /\ (IsNone(call.angle_rad) /\ ~OfficialRotation /\ call.require_official)
               => Rotation = None
          /\ (IsNone(call.angle_rad) /\ ~OfficialRotation /\ ~call.require_official)
               => Rotation = Some([num |-> -1, den |-> 2])
    /\ (call.done /\ call.circ.st = "raises" /\ call.prov[call.year] = "loaded" /\ ~call.fault)
       => call.result.kind = "return"

C19_Witness ==
    /\ call.done /\ call.result.kind = "return"
    /\ call.angle_rad = Some([num |-> 1, den |-> 4]) /\ call.circ.rotation = Some(30)
    /\ ~call.require_official
    /\ Rotation = Some([num |-> 1, den |-> 4])

\* C20: in every step of a sequence of requests served one after the other, a
\* cache file that exists stays with the same bytes unless the request is a
\* track_image request with refresh for that file's key; and a track_image
\* request without refresh for its key is answered with exactly those bytes.
C20_EntryKeptUntilRefreshed ==
    [][\A k \in DOMAIN cache :
          LET same_key == op'.route = "track_image" /\ op'.key = Some(k)
              refresh == FlagValue(op'.rq.refresh)
          IN /\ ~(same_key /\ refresh) => (k \in DOMAIN cache' /\ cache'[k] = cache[k])
             /\ (same_key /\ ~refresh)
                  => (resp'.status = 200 /\ resp'.body = Some(cache[k]) /\ draw' = NoDraw)]_vars

C20_Witness ==
    /\ IsImage /\ ~FlagValue(op.rq.refresh) /\ ~IsNone(op.key)
    /\ DOMAIN before # {} /\ Key \notin DOMAIN before
    /\ draw.kind = "return" /\ op.env.wr = "ok" /\ cache[Key] = Fresh
    /\ \A k \in DOMAIN before : cache[k] = before[k] /\ before[k] # Fresh

\* The bytes every successful render of the parallel requests produces
RenderedBytes == Png(<<"A", "_", "B">>, BaseYear, None, FALSE, DefaultFigsize)

\* C15: a track_image request without refresh that overlapped no request with
\* refresh, and that did not end with a failed render, is answered 200 with
\* exactly the rendered bytes B; and when no request is in flight the cache
\* file, if there is one, holds exactly B.
C15_ParallelRendersServeSameBytes ==
    /\ \A t \in Threads :
          (procs[t].pc = "done" /\ ~procs[t].refresh_flag /\ ~procs[t].saw_refresh
              /\ procs[t].resp.status \notin {404, 500})
          => /\ procs[t].resp.status = 200
             /\ procs[t].resp.body = Some(RenderedBytes)
    /\ (\A t \in Threads : ~InFlight(t))
          => \A k \in DOMAIN cache : cache[k] = RenderedBytes

\* C16: a track_image request without refresh never ends with the
\* FileNotFoundError of a cache file removed between its existence check and
\* its read: it ends with the stored bytes, fresh bytes, or the 404 / 500 of a
\* failed render.
C16_NoFileMissingFailure ==
    \A t \in Threads :
        (procs[t].pc = "done" /\ ~procs[t].refresh_flag)
        => /\ procs[t].error # "FileNotFoundError"
           /\ \/ procs[t].resp.status = 200 /\ ~IsNone(procs[t].resp.body)
              \/ procs[t].resp.status \in {404, 500} /\ IsNone(procs[t].img_bytes)

\* C21: a track_image request with refresh that finds the cache file of its
\* key, removes it, and then ends with a 404 or a 500 leaves no file for the key
\* (the old bytes are not put back); and a request without refresh (and without
\* angle) whose key has no file calls draw_f1_circuit and asks the provider.
C21_FailedRefreshLosesEntry ==
    [][LET image == op'.route = "track_image" /\ ~IsNone(op'.key)
           k == Val(op'.key)
           refresh == FlagValue(op'.rq.refresh)
       IN /\ (image /\ refresh /\ k \in DOMAIN cache /\ op'.used.del /\ op'.env.del_ok
                 /\ resp'.status \in {404, 500})
               => k \notin DOMAIN cache'
          /\ (image /\ ~refresh /\ k \notin DOMAIN cache /\ IsNone(op'.rq.angle))
               => (draw'.kind # "none" /\ draw'.asked # <<>>)]_vars

C21_Witness ==
    /\ IsImage /\ FlagValue(op.rq.refresh) /\ ~IsNone(op.key)
    /\ Key \in DOMAIN before /\ op.used.del /\ op.env.del_ok
    /\ draw.kind = "raise" /\ resp.status = 404
    /\ Key \notin DOMAIN cache

\* The last year a call requested from the provider
LastAsked == call.result.asked[Len(call.result.asked)]

\* C22: for every max_years_back >= 0 the year loop is left by the break or by
\* a raise inside an iteration, never by running out of years (the else branch
\* with its "No data found for ... from ... to ..." error); a raise out of the
\* loop carries the error of the last year requested, also when no year of the
\* range has data.
C22_LoopNeverExhausted ==
    call.done
    => /\ call.result.exit \in {"break", "iteration", "plot"}
       /\ call.result.asked # <<>>
       /\ call.result.exit = "iteration"
            => /\ call.result.kind = "raise"
               /\ Some(call.result.exc) = IterationError(call.prov[LastAsked])
       /\ (\A y \in Range : call.prov[y] \in NoData)
            => /\ call.result.kind = "raise" /\ call.result.exit = "iteration"
               /\ call.result.exc =
                     (IF call.prov[LastAsked] = "not_available"
                      THEN SessionNotAvailableError ELSE ValueError)

C22_Witness ==
    /\ call.done /\ call.max_years_back = 1
    /\ call.prov[call.year] = "no_laps" /\ call.prov[call.year - 1] = "not_available"
    /\ call.result.kind = "raise" /\ call.result.exit = "iteration"
    /\ call.result.exc = SessionNotAvailableError
    /\ LastAsked = call.year - 1

====
